---- MODULE Spec2Model ----
(***************************************************************************)
(* A model of flask_cqlalchemy (src/flask_cqlalchemy/__init__.py):         *)
(*   - handel_db_timeout.execute, the timeout-retry executor;              *)
(*   - CQLAlchemy.__init__ / init_app / set_keyspace, the facade;          *)
(*   - flatten / get_subclasses, the subclass enumerator;                  *)
(*   - drop_tables, which runs one executor per enumerated model.          *)
(*                                                                         *)
(* Python values that may be None are written as sequences: <<>> is None   *)
(* and <<v>> is the value v, so that None, 0 and "" stay distinct.         *)
(***************************************************************************)
EXTENDS Integers, Sequences, FiniteSets, TLC

(***************************************************************************)
(* Bounds of the model.                                                    *)
(***************************************************************************)
MaxTries == 3
MaxExecutes == 2
MaxClasses == 4
MaxBinds == 2
MaxDrops == 1

(***************************************************************************)
(* Program constants.                                                      *)
(***************************************************************************)
ElevatedTimeout == 100
DefaultTries == 2
DefaultConsistency == 1

VARIABLES
    \* ---- handel_db_timeout (self) and the frame of execute ----
    func,             \* self.func: the name of the wrapped driver operation
    tries,            \* self.tries
    logger,           \* self.logger is set (TRUE) or None (FALSE)
    session,          \* self.session: "None" or the session object "S"
    args,             \* the argument execute was called with
    default_timeout,  \* the local default_timeout of execute
    i,                \* iterations of `for _ in range(self.tries)` started
    pc,               \* position inside execute
    pending,          \* what the try statement does once finally is over
    result,           \* the value execute returned
    exc,              \* the exception that left execute
    executes,         \* how many times execute has been entered
    \* ---- the driver ----
    connSession,      \* cassandra.cqlengine.connection.session
    sessTimeout,      \* default_timeout of the session object "S"
    calls,            \* every invocation of a driver operation, in order
    warnings,         \* where each warning went
    \* ---- history of the running execute ----
    timeout0,         \* sessTimeout when execute was entered
    callBase,         \* Len(calls) when execute was entered
    \* ---- the class tree and get_subclasses ----
    parent,           \* parent[c]: the base class of class c (0 for the root)
    abstract,         \* abstract[c]: c.__abstract__
    enumArg,          \* the class get_subclasses was last called on
    enumResult,       \* what it returned
    \* ---- drop_tables ----
    dpc,              \* position inside drop_tables
    dmodels,          \* the local `models`
    dindex,           \* index of the model being dropped
    \* ---- CQLAlchemy facades and the process ----
    constructed,      \* constructed[f]: __init__ has run
    app,              \* self.app: <<>> or <<config>>
    hosts_,           \* self._hosts_ (<<>> while the attribute is unset)
    keyspace_,        \* self._keyspace_ (<<>> while the attribute is unset)
    DEFAULT_KEYSPACE, \* models.DEFAULT_KEYSPACE
    setupCount,       \* calls of connection.setup so far
    lastSetup,        \* the arguments of the last connection.setup call
    lastCall,         \* the facade method called last, with its input
    lastRaise,        \* what that call raised ("" when it returned)
    boundKeyspace,    \* boundKeyspace[f]: keyspace of the last successful bind
    \* ---- sync_db ----
    spc,              \* position inside sync_db
    smodels,          \* the local `models`
    sindex,           \* index of the model being synced
    sexc,             \* the exception that left sync_db
    \* ---- drop_db ----
    kpc,              \* position inside drop_db
    kdb,              \* the facade drop_db was called on
    drops,            \* how many times drop_db has been entered
    \* ---- a second thread running execute on an executor of its own ----
    frame2            \* its executor, its frame and its history, as a record

execVars == <<func, tries, logger, session, args, default_timeout, i, pc,
              pending, result, exc, executes, connSession, sessTimeout,
              calls, warnings, timeout0, callBase>>
enumVars == <<parent, abstract, enumArg, enumResult>>
dropVars == <<dpc, dmodels, dindex>>
facadeVars == <<constructed, app, hosts_, keyspace_, DEFAULT_KEYSPACE,
                setupCount, lastSetup, lastCall, lastRaise, boundKeyspace>>
syncVars == <<spc, smodels, sindex, sexc>>
dbVars == <<kpc, kdb, drops>>
threadVars == <<frame2>>
vars == <<execVars, enumVars, dropVars, facadeVars, syncVars, dbVars,
          threadVars>>

None == <<>>
Some(v) == <<v>>

\* Python truthiness of an optional number, and of an optional string.
Truthy(v) == v # None /\ v # Some(0)
TruthyStr(v) == v # None /\ v # Some("")

(***************************************************************************)
(* handel_db_timeout.execute                                               *)
(***************************************************************************)
Outcomes == {"ok", "timeout", "other"}
Timeouts == {None, Some(0), Some(10), Some(ElevatedTimeout)}

\* `if self.session:` -- a session object is truthy, None is not.
HasSession(s) == s # "None"

\* execute(*args): default_timeout = None, then the for loop starts.
ExecuteEnter(a) ==
    /\ args' = a
    /\ default_timeout' = None
    /\ i' = 0
    /\ pc' = "for"
    /\ pending' = "none"
    /\ result' = None
    /\ exc' = "none"
    /\ timeout0' = sessTimeout
    /\ callBase' = Len(calls)
    /\ UNCHANGED <<connSession, sessTimeout, calls, warnings>>

\* A direct call of execute on an executor built by the caller.
Execute ==
    /\ pc \in {"idle", "returned", "raised"}
    /\ dpc = "off"
    /\ executes < MaxExecutes
    /\ ExecuteEnter("x")
    /\ executes' = executes + 1
    /\ UNCHANGED <<func, tries, logger, session>>
    /\ UNCHANGED <<enumVars, dropVars, facadeVars,
                   syncVars, dbVars, threadVars>>

\* A loop that runs one iteration too many.
LoopContinuesOffByOne == i <= tries

\* A loop whose body runs before the count is tested.
LoopContinuesAtLeastOnce == i < tries \/ i = 0

\* for _ in range(self.tries): one more iteration, or the loop is over.
LoopContinues == i < tries

ForLoop ==
    /\ pc = "for"
    /\ IF LoopContinues
         THEN /\ i' = i + 1
              /\ pc' = "try"
         ELSE /\ i' = i
              /\ pc' = "raise"
    /\ UNCHANGED <<func, tries, logger, session, args, default_timeout,
                   pending, result, exc, executes, connSession, sessTimeout,
                   calls, warnings, timeout0, callBase>>
    /\ UNCHANGED <<enumVars, dropVars, facadeVars,
                   syncVars, dbVars, threadVars>>

\* A try statement that drops the return and goes round the loop again.
AfterCallNoReturn(o) ==
    CASE o = "ok"      -> [pc |-> "finally", pending |-> "none"]
      [] o = "timeout" -> [pc |-> "except",  pending |-> "none"]
      [] OTHER         -> [pc |-> "finally", pending |-> "propagate"]

\* A try statement whose except clause catches every error.
AfterCallCatchAll(o) ==
    CASE o = "ok"      -> [pc |-> "finally", pending |-> "return"]
      [] OTHER         -> [pc |-> "except",  pending |-> "none"]

\* What the try statement does with the outcome of self.func(*args):
\* return its value, run the except clause, or let the error propagate.
AfterCall(o) ==
    CASE o = "ok"      -> [pc |-> "finally", pending |-> "return"]
      [] o = "timeout" -> [pc |-> "except",  pending |-> "none"]
      [] OTHER         -> [pc |-> "finally", pending |-> "propagate"]

\* return self.func(*args, **kwags)
TryCall ==
    /\ pc = "try"
    /\ \E o \in Outcomes :
         /\ calls' = Append(calls, [func |-> func, arg |-> args,
                                    timeout |-> sessTimeout, outcome |-> o])
         /\ pc' = AfterCall(o).pc
         /\ pending' = AfterCall(o).pending
         /\ result' = IF o = "ok" THEN Some(Len(calls) + 1) ELSE result
    /\ UNCHANGED <<func, tries, logger, session, args, default_timeout, i,
                   exc, executes, connSession, sessTimeout, warnings,
                   timeout0, callBase>>
    /\ UNCHANGED <<enumVars, dropVars, facadeVars,
                   syncVars, dbVars, threadVars>>

\* A lookup that replaces the session the executor was given.
ResolveSessionAlways == connSession

\* except self.error: the warning, then the lazy lookup of the session.
ResolveSession == IF session = "None" THEN connSession ELSE session

ExceptWarn ==
    /\ pc = "except"
    /\ warnings' = Append(warnings, IF logger THEN "logger" ELSE "stdout")
    /\ session' = ResolveSession
    /\ pc' = IF HasSession(session') THEN "capture" ELSE "finally"
    /\ UNCHANGED <<func, tries, logger, args, default_timeout, i, pending,
                   result, exc, executes, connSession, sessTimeout, calls,
                   timeout0, callBase>>
    /\ UNCHANGED <<enumVars, dropVars, facadeVars,
                   syncVars, dbVars, threadVars>>

\* A capture made after the elevation: it sees the elevated value.
ExceptCaptureSwapped ==
    /\ pc = "capture"
    /\ default_timeout' = Some(ElevatedTimeout)
    /\ pc' = "elevate"
    /\ UNCHANGED <<func, tries, logger, session, args, i, pending, result,
                   exc, executes, connSession, sessTimeout, calls, warnings,
                   timeout0, callBase>>
    /\ UNCHANGED <<enumVars, dropVars, facadeVars,
                   syncVars, dbVars, threadVars>>

\* default_timeout = self.session.default_timeout
ExceptCapture ==
    /\ pc = "capture"
    /\ default_timeout' = sessTimeout
    /\ pc' = "elevate"
    /\ UNCHANGED <<func, tries, logger, session, args, i, pending, result,
                   exc, executes, connSession, sessTimeout, calls, warnings,
                   timeout0, callBase>>
    /\ UNCHANGED <<enumVars, dropVars, facadeVars,
                   syncVars, dbVars, threadVars>>

\* self.session.default_timeout = 100
ExceptElevate ==
    /\ pc = "elevate"
    /\ sessTimeout' = Some(ElevatedTimeout)
    /\ pc' = "finally"
    /\ UNCHANGED <<func, tries, logger, session, args, default_timeout, i,
                   pending, result, exc, executes, connSession, calls,
                   warnings, timeout0, callBase>>
    /\ UNCHANGED <<enumVars, dropVars, facadeVars,
                   syncVars, dbVars, threadVars>>

\* A finally clause that never restores.
RestoresNever == FALSE

\* finally: if self.session and default_timeout: restore the timeout.
Restores == HasSession(session) /\ Truthy(default_timeout)

\* Where control goes when the finally clause is over.
AfterFinally(p) ==
    CASE p = "return"    -> "returned"
      [] p = "propagate" -> "raised"
      [] OTHER           -> "for"

Finally ==
    /\ pc = "finally"
    /\ sessTimeout' = IF Restores THEN default_timeout ELSE sessTimeout
    /\ pc' = AfterFinally(pending)
    /\ exc' = IF pending = "propagate" THEN "OtherError" ELSE exc
    /\ pending' = "none"
    /\ UNCHANGED <<func, tries, logger, session, args, default_timeout, i,
                   result, executes, connSession, calls, warnings, timeout0,
                   callBase>>
    /\ UNCHANGED <<enumVars, dropVars, facadeVars,
                   syncVars, dbVars, threadVars>>

\* raise self.error  (after the loop)
RaiseError ==
    /\ pc = "raise"
    /\ pc' = "raised"
    /\ exc' = "OperationTimedOut"
    /\ UNCHANGED <<func, tries, logger, session, args, default_timeout, i,
                   pending, result, executes, connSession, sessTimeout, calls,
                   warnings, timeout0, callBase>>
    /\ UNCHANGED <<enumVars, dropVars, facadeVars,
                   syncVars, dbVars, threadVars>>

ExecuteStep ==
    \/ ForLoop
    \/ TryCall
    \/ ExceptWarn
    \/ ExceptCapture
    \/ ExceptElevate
    \/ Finally
    \/ RaiseError

\* The parts of the state the executor specification leaves alone.
IdleEnum ==
    /\ parent = <<0>>
    /\ abstract = <<TRUE>>
    /\ enumArg = 0
    /\ enumResult = None

IdleDrop ==
    /\ dpc = "off"
    /\ dmodels = <<>>
    /\ dindex = 0

IdleFacade ==
    /\ constructed = [f \in {"A"} |-> FALSE]
    /\ app = [f \in {"A"} |-> None]
    /\ hosts_ = [f \in {"A"} |-> None]
    /\ keyspace_ = [f \in {"A"} |-> None]
    /\ DEFAULT_KEYSPACE = None
    /\ setupCount = 0
    /\ lastSetup = None
    /\ lastCall = [op |-> "none", f |-> "A", input |-> None]
    /\ lastRaise = ""
    /\ boundKeyspace = [f \in {"A"} |-> None]

IdleSync ==
    /\ spc = "off"
    /\ smodels = <<>>
    /\ sindex = 0
    /\ sexc = "none"

IdleDb ==
    /\ kpc = "off"
    /\ kdb = "A"
    /\ drops = 0

\* The frame of a thread that has not called execute.
IdleFrame(orig) ==
    [pc |-> "idle", tries |-> DefaultTries, session |-> "None", i |-> 0,
     default_timeout |-> None, pending |-> "none", exc |-> "none",
     outcomes |-> <<>>, orig |-> orig]

IdleThread == frame2 = IdleFrame(None)

IdleLater ==
    /\ IdleSync
    /\ IdleDb
    /\ IdleThread

\* handel_db_timeout(func, tries, logger, session): a fresh executor.
NewExecutor(f, t, l, s) ==
    /\ func = f
    /\ tries = t
    /\ logger = l
    /\ session = s
    /\ args = "x"
    /\ default_timeout = None
    /\ i = 0
    /\ pc = "idle"
    /\ pending = "none"
    /\ result = None
    /\ exc = "none"
    /\ executes = 0
    /\ calls = <<>>
    /\ warnings = <<>>
    /\ callBase = 0

Init ==
    /\ \E t \in (-1)..MaxTries, l \in BOOLEAN, s \in {"None", "S"} :
         NewExecutor("op", t, l, s)
    /\ connSession \in {"None", "S"}
    /\ sessTimeout \in Timeouts
    /\ timeout0 = sessTimeout
    /\ IdleEnum
    /\ IdleDrop
    /\ IdleFacade
    /\ IdleLater

Next ==
    \/ Execute
    \/ ExecuteStep

Spec == Init /\ [][Next]_vars

(***************************************************************************)
(* CQLAlchemy: __init__, init_app, set_keyspace                            *)
(*                                                                         *)
(* An application configuration is a record of optional settings; None     *)
(* stands for a key that is missing from app.config.                       *)
(***************************************************************************)
\* The optional settings an application sets: none, all, or some of them.
OptionalSettings ==
    {[consistency |-> None, lazy_connect |-> None,
      retry_connect |-> None, setup_kwargs |-> None],
     [consistency |-> Some(2), lazy_connect |-> None,
      retry_connect |-> None, setup_kwargs |-> None],
     [consistency |-> None, lazy_connect |-> Some(TRUE),
      retry_connect |-> None, setup_kwargs |-> Some("port")],
     [consistency |-> Some(2), lazy_connect |-> Some(TRUE),
      retry_connect |-> Some(TRUE), setup_kwargs |-> Some("port")]}

Configs ==
    {[hosts         |-> h,
      keyspace      |-> k,
      consistency   |-> o.consistency,
      lazy_connect  |-> o.lazy_connect,
      retry_connect |-> o.retry_connect,
      setup_kwargs  |-> o.setup_kwargs] :
        h \in {None, Some(<<>>), Some(<<"h1">>)},
        k \in {None, Some(""), Some("ks1")},
        o \in OptionalSettings}

KeyspaceArgs == {None, Some(""), Some("ks1"), Some("other")}

\* The configuration has a non-empty host list / a non-empty keyspace.
HostsSet(c) == c.hosts # None /\ c.hosts[1] # <<>>
KeyspaceSet(c) == TruthyStr(c.keyspace)

\* app.config.get(key, default)
ConfigGet(v, default) == IF v = None THEN default ELSE v[1]

\* A guard that tests the hosts alone.
MissingConfigHostsOnly(h, k) == h = <<>>

\* `not self._hosts_ and self._keyspace_`
MissingConfig(h, k) == (~ (h # <<>>)) /\ (k # "")

\* A bind that passes defaults other than the documented ones.
SetupArgsWrongDefaults(cfg) ==
    [hosts         |-> cfg.hosts[1],
     keyspace      |-> cfg.keyspace[1],
     consistency   |-> ConfigGet(cfg.consistency, 0),
     lazy_connect  |-> ConfigGet(cfg.lazy_connect, TRUE),
     retry_connect |-> ConfigGet(cfg.retry_connect, FALSE),
     setup_kwargs  |-> ConfigGet(cfg.setup_kwargs, "")]

\* The arguments init_app passes to connection.setup.
SetupArgs(cfg) ==
    [hosts         |-> cfg.hosts[1],
     keyspace      |-> cfg.keyspace[1],
     consistency   |-> ConfigGet(cfg.consistency, DefaultConsistency),
     lazy_connect  |-> ConfigGet(cfg.lazy_connect, FALSE),
     retry_connect |-> ConfigGet(cfg.retry_connect, FALSE),
     setup_kwargs  |-> ConfigGet(cfg.setup_kwargs, "")]

\* How init_app ends for a configuration.
InitAppOutcome(cfg) ==
    CASE cfg.hosts = None \/ cfg.keyspace = None          -> "KeyError"
      [] MissingConfig(cfg.hosts[1], cfg.keyspace[1])     -> "NoConfig"
      [] OTHER                                            -> ""

\* The body of init_app on facade f: the two fields are assigned as soon as
\* their keys are read, before the configuration is checked; connection.setup
\* (which also sets models.DEFAULT_KEYSPACE to the keyspace it is given) is
\* reached only when nothing was raised.
InitAppBody(f, cfg) ==
    /\ hosts_' = IF cfg.hosts = None
                   THEN hosts_
                   ELSE [hosts_ EXCEPT ![f] = cfg.hosts]
    /\ keyspace_' = IF cfg.hosts = None \/ cfg.keyspace = None
                      THEN keyspace_
                      ELSE [keyspace_ EXCEPT ![f] = cfg.keyspace]
    /\ lastRaise' = InitAppOutcome(cfg)
    /\ IF InitAppOutcome(cfg) = ""
         THEN /\ setupCount' = setupCount + 1
              /\ lastSetup' = Some(SetupArgs(cfg))
              /\ DEFAULT_KEYSPACE' = cfg.keyspace
              /\ boundKeyspace' = [boundKeyspace EXCEPT ![f] = cfg.keyspace]
         ELSE UNCHANGED <<setupCount, lastSetup, DEFAULT_KEYSPACE,
                          boundKeyspace>>

\* CQLAlchemy(app): app is None or an application; with an application the
\* constructor goes on to init_app, and an error there leaves no object
\* (what init_app had assigned is lost with it).
Construct(f, a) ==
    /\ ~ constructed[f]
    /\ setupCount < MaxBinds
    /\ lastCall' = [op |-> "__init__", f |-> f, input |-> a]
    /\ IF a = None
         THEN /\ constructed' = [constructed EXCEPT ![f] = TRUE]
              /\ app' = [app EXCEPT ![f] = None]
              /\ lastRaise' = ""
              /\ UNCHANGED <<hosts_, keyspace_, DEFAULT_KEYSPACE, setupCount,
                             lastSetup, boundKeyspace>>
         ELSE IF InitAppOutcome(a[1]) = ""
                THEN /\ InitAppBody(f, a[1])
                     /\ constructed' = [constructed EXCEPT ![f] = TRUE]
                     /\ app' = [app EXCEPT ![f] = a]
                ELSE /\ lastRaise' = InitAppOutcome(a[1])
                     /\ UNCHANGED <<constructed, app, hosts_, keyspace_,
                                    DEFAULT_KEYSPACE, setupCount, lastSetup,
                                    boundKeyspace>>
    /\ UNCHANGED <<execVars, enumVars, dropVars,
                   syncVars, dbVars, threadVars>>

\* db.init_app(app) on a constructed facade; self.app is not assigned.
InitApp(f, cfg) ==
    /\ constructed[f]
    /\ setupCount < MaxBinds
    /\ lastCall' = [op |-> "init_app", f |-> f, input |-> Some(cfg)]
    /\ InitAppBody(f, cfg)
    /\ UNCHANGED <<constructed, app>>
    /\ UNCHANGED <<execVars, enumVars, dropVars,
                   syncVars, dbVars, threadVars>>

\* How set_keyspace ends: the fallback reads self.app.config.
SetKeyspaceOutcome(f, name) ==
    CASE TruthyStr(name)           -> ""
      [] app[f] = None             -> "AttributeError"
      [] app[f][1].keyspace = None -> "KeyError"
      [] OTHER                     -> ""

\* A set_keyspace that ignores its argument.
SetKeyspaceNameIgnoreArg(f, name) == app[f][1].keyspace

\* The keyspace set_keyspace switches to.
SetKeyspaceName(f, name) ==
    IF TruthyStr(name) THEN name ELSE app[f][1].keyspace

\* A set_keyspace that keeps the keyspace in one field shared by every
\* facade.
SetKeyspaceShared(f, name) ==
    /\ constructed[f]
    /\ lastCall' = [op |-> "set_keyspace", f |-> f, input |-> name]
    /\ lastRaise' = SetKeyspaceOutcome(f, name)
    /\ IF SetKeyspaceOutcome(f, name) = ""
         THEN /\ DEFAULT_KEYSPACE' = SetKeyspaceName(f, name)
              /\ keyspace_' = [g \in DOMAIN keyspace_ |->
                                 SetKeyspaceName(f, name)]
         ELSE UNCHANGED <<DEFAULT_KEYSPACE, keyspace_>>
    /\ UNCHANGED <<constructed, app, hosts_, setupCount, lastSetup,
                   boundKeyspace>>
    /\ UNCHANGED <<execVars, enumVars, dropVars,
                   syncVars, dbVars, threadVars>>

\* db.set_keyspace(keyspace_name)
SetKeyspace(f, name) ==
    /\ constructed[f]
    /\ lastCall' = [op |-> "set_keyspace", f |-> f, input |-> name]
    /\ lastRaise' = SetKeyspaceOutcome(f, name)
    /\ IF SetKeyspaceOutcome(f, name) = ""
         THEN /\ DEFAULT_KEYSPACE' = SetKeyspaceName(f, name)
              /\ keyspace_' = [keyspace_ EXCEPT ![f] = SetKeyspaceName(f, name)]
         ELSE UNCHANGED <<DEFAULT_KEYSPACE, keyspace_>>
    /\ UNCHANGED <<constructed, app, hosts_, setupCount, lastSetup,
                   boundKeyspace>>
    /\ UNCHANGED <<execVars, enumVars, dropVars,
                   syncVars, dbVars, threadVars>>

\* The executor is not running in the facade specification.
IdleExec ==
    /\ NewExecutor("op", DefaultTries, FALSE, "None")
    /\ connSession = "None"
    /\ sessTimeout = None
    /\ timeout0 = None

InitFacade ==
    /\ IdleFacade
    /\ IdleExec
    /\ IdleEnum
    /\ IdleDrop
    /\ IdleLater

AppArgs == {None} \cup {Some(c) : c \in Configs}

NextFacade ==
    \/ \E f \in DOMAIN constructed, a \in AppArgs : Construct(f, a)
    \/ \E f \in DOMAIN constructed, cfg \in Configs : InitApp(f, cfg)
    \/ \E f \in DOMAIN constructed, name \in KeyspaceArgs : SetKeyspace(f, name)

SpecFacade == InitFacade /\ [][NextFacade]_vars

(***************************************************************************)
(* flatten, get_subclasses                                                 *)
(*                                                                         *)
(* Classes are numbered in the order they are declared: class 1 is the     *)
(* root (db.Model), parent[c] < c is the base class of c.                  *)
(***************************************************************************)
Classes == 1..Len(parent)

\* cls.__subclasses__(): the direct subclasses, in declaration order.
Subclasses(cls) ==
    SelectSeq([k \in 1..Len(parent) |-> k], LAMBDA k : parent[k] = cls)

\* flatten(lists): the items of every sublist, in order.
RECURSIVE flatten(_)
flatten(lists) ==
    IF lists = <<>> THEN <<>> ELSE Head(lists) \o flatten(Tail(lists))

\* get_subclasses(cls): an abstract class gives the flattened results of its
\* direct subclasses, any other class gives itself alone.
RECURSIVE get_subclasses(_)
get_subclasses(cls) ==
    IF abstract[cls]
      THEN flatten([k \in 1..Len(Subclasses(cls)) |->
                      get_subclasses(Subclasses(cls)[k])])
      ELSE <<cls>>

\* A call of get_subclasses on any class of the tree.
GetSubclasses(cls) ==
    /\ enumArg' = cls
    /\ enumResult' = Some(get_subclasses(cls))
    /\ UNCHANGED <<parent, abstract>>
    /\ UNCHANGED <<execVars, dropVars, facadeVars,
                   syncVars, dbVars, threadVars>>

\* The class trees of up to MaxClasses classes under an abstract root.
TreeInit ==
    /\ \E n \in 1..MaxClasses :
         /\ parent \in [1..n -> 0..(n - 1)]
         /\ abstract \in [1..n -> BOOLEAN]
    /\ \A c \in 1..Len(parent) : parent[c] < c /\ (parent[c] = 0 <=> c = 1)
    /\ abstract[1]
    /\ enumArg = 0
    /\ enumResult = None

\* The executor before any execute, beside whatever the driver holds.
DriverInit ==
    /\ NewExecutor("op", DefaultTries, FALSE, "None")
    /\ connSession \in {"None", "S"}
    /\ sessTimeout \in Timeouts
    /\ timeout0 = sessTimeout

InitEnum ==
    /\ TreeInit
    /\ IdleExec
    /\ IdleDrop
    /\ IdleFacade
    /\ IdleLater

NextEnum == \E cls \in Classes : GetSubclasses(cls)

SpecEnum == InitEnum /\ [][NextEnum]_vars

(***************************************************************************)
(* drop_tables                                                             *)
(***************************************************************************)
\* A loop that leaves out the last model.
DropLoopContinuesSkipLast == dindex < Len(dmodels)

\* for model in models: there is a next model.
DropLoopContinues == dindex <= Len(dmodels)

\* models = get_subclasses(db.Model)
DropTablesEnter ==
    /\ dpc = "start"
    /\ dmodels' = get_subclasses(1)
    /\ dindex' = 1
    /\ dpc' = "loop"
    /\ UNCHANGED <<execVars, enumVars, facadeVars,
                   syncVars, dbVars, threadVars>>

\* with handel_db_timeout(drop_table) as dt: dt.execute(model)
\* -- a new executor with the default tries, logger and session.
DropTablesNext ==
    /\ dpc = "loop"
    /\ IF DropLoopContinues
         THEN /\ func' = "drop_table"
              /\ tries' = DefaultTries
              /\ logger' = FALSE
              /\ session' = "None"
              /\ executes' = 1
              /\ ExecuteEnter(dmodels[dindex])
              /\ dpc' = "execute"
         ELSE /\ dpc' = "done"
              /\ UNCHANGED execVars
    /\ UNCHANGED <<dmodels, dindex>>
    /\ UNCHANGED <<enumVars, facadeVars,
                   syncVars, dbVars, threadVars>>

\* A context manager whose __exit__ swallows the exception.
DropTablesAfterSwallow ==
    /\ dpc = "execute"
    /\ pc \in {"returned", "raised"}
    /\ dindex' = dindex + 1
    /\ dpc' = "loop"
    /\ UNCHANGED dmodels
    /\ UNCHANGED <<execVars, enumVars, facadeVars,
                   syncVars, dbVars, threadVars>>

\* execute is over: __exit__ does nothing, so a return goes on to the next
\* model and an exception leaves drop_tables.
DropTablesAfter ==
    /\ dpc = "execute"
    /\ pc \in {"returned", "raised"}
    /\ IF pc = "returned"
         THEN /\ dindex' = dindex + 1
              /\ dpc' = "loop"
         ELSE /\ dindex' = dindex
              /\ dpc' = "raised"
    /\ UNCHANGED dmodels
    /\ UNCHANGED <<execVars, enumVars, facadeVars,
                   syncVars, dbVars, threadVars>>

InitDrop ==
    /\ TreeInit
    /\ DriverInit
    /\ dpc = "start"
    /\ dmodels = <<>>
    /\ dindex = 0
    /\ IdleFacade
    /\ IdleLater

NextDrop ==
    \/ DropTablesEnter
    \/ DropTablesNext
    \/ DropTablesAfter
    \/ ExecuteStep

SpecDrop == InitDrop /\ [][NextDrop]_vars

(***************************************************************************)
(* CQLAlchemy.sync_db                                                      *)
(***************************************************************************)
\* The exception a driver call raises for an outcome that is not "ok".
ErrorOf(o) == IF o = "timeout" THEN "OperationTimedOut" ELSE "OtherError"

\* A sync_db that swallows timeouts and goes on to the next model.
SyncRaisesOnlyOther(o) == o = "other"

\* sync_table(model) is called bare: every error it raises leaves sync_db.
SyncRaises(o) == o # "ok"

\* models = get_subclasses(self.Model)
SyncDbEnter ==
    /\ spc = "start"
    /\ smodels' = get_subclasses(1)
    /\ sindex' = 1
    /\ spc' = "loop"
    /\ UNCHANGED sexc
    /\ UNCHANGED <<execVars, enumVars, dropVars, facadeVars, dbVars,
                   threadVars>>

\* for model in models: sync_table(model)  -- one iteration, or the end.
SyncDbNext ==
    /\ spc = "loop"
    /\ IF sindex <= Len(smodels)
         THEN \E o \in Outcomes :
                /\ calls' = Append(calls, [func |-> "sync_table",
                                           arg |-> smodels[sindex],
                                           timeout |-> sessTimeout,
                                           outcome |-> o])
                /\ IF SyncRaises(o)
                     THEN /\ spc' = "raised"
                          /\ sexc' = ErrorOf(o)
                          /\ sindex' = sindex
                     ELSE /\ spc' = "loop"
                          /\ sexc' = sexc
                          /\ sindex' = sindex + 1
         ELSE /\ spc' = "done"
              /\ UNCHANGED <<calls, sexc, sindex>>
    /\ UNCHANGED smodels
    /\ UNCHANGED <<func, tries, logger, session, args, default_timeout, i,
                   pc, pending, result, exc, executes, connSession,
                   sessTimeout, warnings, timeout0, callBase>>
    /\ UNCHANGED <<enumVars, dropVars, facadeVars, dbVars, threadVars>>

InitSync ==
    /\ TreeInit
    /\ DriverInit
    /\ IdleDrop
    /\ IdleFacade
    /\ spc = "start"
    /\ smodels = <<>>
    /\ sindex = 0
    /\ sexc = "none"
    /\ IdleDb
    /\ IdleThread

NextSync ==
    \/ SyncDbEnter
    \/ SyncDbNext

SpecSync == InitSync /\ [][NextSync]_vars

(***************************************************************************)
(* drop_db, on the facades of one process                                  *)
(***************************************************************************)
\* A drop_db that drops the keyspace the facade was configured with.
DropDbArgConfigured(db) == boundKeyspace[db]

\* db._keyspace_, the argument drop_db gives to execute.
DropDbArg(db) == keyspace_[db]

\* with handel_db_timeout(drop_keyspace) as dks: dks.execute(db._keyspace_)
\* -- a new executor with the default tries, logger and session; reading
\* db._keyspace_ on a facade that was never bound raises AttributeError
\* before execute is entered.
DropDb(db) ==
    /\ constructed[db]
    /\ kpc # "execute"
    /\ drops < MaxDrops
    /\ drops' = drops + 1
    /\ kdb' = db
    /\ func' = "drop_keyspace"
    /\ tries' = DefaultTries
    /\ logger' = FALSE
    /\ session' = "None"
    /\ IF keyspace_[db] = None
         THEN /\ kpc' = "no_keyspace"
              /\ executes' = 0
              /\ UNCHANGED <<args, default_timeout, i, pc, pending, result,
                             exc, connSession, sessTimeout, calls, warnings,
                             timeout0, callBase>>
         ELSE /\ kpc' = "execute"
              /\ executes' = 1
              /\ ExecuteEnter(DropDbArg(db))
    /\ UNCHANGED <<enumVars, dropVars, facadeVars, syncVars, threadVars>>

\* execute is over: __exit__ does nothing, drop_db returns or raises.
DropDbAfter ==
    /\ kpc = "execute"
    /\ pc \in {"returned", "raised"}
    /\ kpc' = IF pc = "returned" THEN "done" ELSE "raised"
    /\ UNCHANGED <<kdb, drops>>
    /\ UNCHANGED <<execVars, enumVars, dropVars, facadeVars, syncVars,
                   threadVars>>

\* The applications of the process: hosts and keyspace set or not, every
\* optional setting left out.
PlainConfigs ==
    {c \in Configs : /\ c.consistency = None
                     /\ c.lazy_connect = None
                     /\ c.retry_connect = None
                     /\ c.setup_kwargs = None}

PlainAppArgs == {None} \cup {Some(c) : c \in PlainConfigs}

\* A live session with a timeout of its own.
LiveSession ==
    /\ NewExecutor("op", DefaultTries, FALSE, "None")
    /\ connSession = "S"
    /\ sessTimeout = Some(10)
    /\ timeout0 = sessTimeout

InitDropDb ==
    /\ IdleFacade
    /\ LiveSession
    /\ IdleEnum
    /\ IdleDrop
    /\ IdleSync
    /\ IdleDb
    /\ IdleThread

\* One thread: no facade method runs while drop_db is inside execute.
NextDropDb ==
    \/ \E f \in DOMAIN constructed, a \in PlainAppArgs :
         kpc # "execute" /\ Construct(f, a)
    \/ \E f \in DOMAIN constructed, cfg \in PlainConfigs :
         kpc # "execute" /\ InitApp(f, cfg)
    \/ \E f \in DOMAIN constructed, name \in KeyspaceArgs :
         kpc # "execute" /\ SetKeyspace(f, name)
    \/ \E f \in DOMAIN constructed : DropDb(f)
    \/ DropDbAfter
    \/ ExecuteStep

SpecDropDb == InitDropDb /\ [][NextDropDb]_vars

\* Two facades in one process, neither constructed yet.
Facades == {"A", "B"}

TwoFacades ==
    /\ constructed = [f \in Facades |-> FALSE]
    /\ app = [f \in Facades |-> None]
    /\ hosts_ = [f \in Facades |-> None]
    /\ keyspace_ = [f \in Facades |-> None]
    /\ DEFAULT_KEYSPACE = None
    /\ setupCount = 0
    /\ lastSetup = None
    /\ lastCall = [op |-> "none", f |-> "A", input |-> None]
    /\ lastRaise = ""
    /\ boundKeyspace = [f \in Facades |-> None]

\* The one application both facades are bound to.
SharedConfigs == {c \in PlainConfigs : HostsSet(c) /\ KeyspaceSet(c)}

SharedAppArgs == {None} \cup {Some(c) : c \in SharedConfigs}

InitTwo ==
    /\ TwoFacades
    /\ LiveSession
    /\ IdleEnum
    /\ IdleDrop
    /\ IdleSync
    /\ IdleDb
    /\ IdleThread

NextTwo ==
    \/ \E f \in Facades, a \in SharedAppArgs :
         kpc # "execute" /\ Construct(f, a)
    \/ \E f \in Facades, cfg \in SharedConfigs :
         kpc # "execute" /\ InitApp(f, cfg)
    \/ \E f \in Facades, name \in KeyspaceArgs :
         kpc # "execute" /\ SetKeyspace(f, name)
    \/ \E f \in Facades : DropDb(f)
    \/ DropDbAfter
    \/ ExecuteStep

SpecTwo == InitTwo /\ [][NextTwo]_vars

(***************************************************************************)
(* Two threads in execute, each on an executor of its own, both resolving  *)
(* the driver's session.  Thread 1 is the frame above; thread 2 runs the   *)
(* same statements on frame2.  A step is one statement.                    *)
(***************************************************************************)
\* execute(*args) in thread 2
T2Execute ==
    /\ frame2.pc = "idle"
    /\ frame2' = [frame2 EXCEPT !.pc = "for", !.i = 0,
                                !.default_timeout = None]
    /\ UNCHANGED <<execVars, enumVars, dropVars, facadeVars, syncVars,
                   dbVars>>

\* for _ in range(self.tries)
T2ForLoop ==
    /\ frame2.pc = "for"
    /\ frame2' = IF frame2.i < frame2.tries
                   THEN [frame2 EXCEPT !.i = frame2.i + 1, !.pc = "try"]
                   ELSE [frame2 EXCEPT !.pc = "raise"]
    /\ UNCHANGED <<execVars, enumVars, dropVars, facadeVars, syncVars,
                   dbVars>>

\* return self.func(*args, **kwags)
T2TryCall ==
    /\ frame2.pc = "try"
    /\ \E o \in Outcomes :
         frame2' = [frame2 EXCEPT !.outcomes = Append(frame2.outcomes, o),
                                  !.pc = AfterCall(o).pc,
                                  !.pending = AfterCall(o).pending]
    /\ UNCHANGED <<execVars, enumVars, dropVars, facadeVars, syncVars,
                   dbVars>>

\* except self.error: the warning (printed, thread 2 has no logger), then
\* the lazy lookup of the session.
T2Session == IF frame2.session = "None" THEN connSession ELSE frame2.session

T2ExceptWarn ==
    /\ frame2.pc = "except"
    /\ warnings' = Append(warnings, "stdout")
    /\ frame2' = [frame2 EXCEPT !.session = T2Session,
                                !.pc = IF HasSession(T2Session)
                                         THEN "capture" ELSE "finally"]
    /\ UNCHANGED <<func, tries, logger, session, args, default_timeout, i,
                   pc, pending, result, exc, executes, connSession,
                   sessTimeout, calls, timeout0, callBase>>
    /\ UNCHANGED <<enumVars, dropVars, facadeVars, syncVars, dbVars>>

\* default_timeout = self.session.default_timeout
T2ExceptCapture ==
    /\ frame2.pc = "capture"
    /\ frame2' = [frame2 EXCEPT !.default_timeout = sessTimeout,
                                !.pc = "elevate"]
    /\ UNCHANGED <<execVars, enumVars, dropVars, facadeVars, syncVars,
                   dbVars>>

\* self.session.default_timeout = 100
T2ExceptElevate ==
    /\ frame2.pc = "elevate"
    /\ sessTimeout' = Some(ElevatedTimeout)
    /\ frame2' = [frame2 EXCEPT !.pc = "finally"]
    /\ UNCHANGED <<func, tries, logger, session, args, default_timeout, i,
                   pc, pending, result, exc, executes, connSession, calls,
                   warnings, timeout0, callBase>>
    /\ UNCHANGED <<enumVars, dropVars, facadeVars, syncVars, dbVars>>

\* finally: if self.session and default_timeout: restore the timeout.
T2Restores == HasSession(frame2.session) /\ Truthy(frame2.default_timeout)

T2Finally ==
    /\ frame2.pc = "finally"
    /\ sessTimeout' = IF T2Restores THEN frame2.default_timeout
                                    ELSE sessTimeout
    /\ frame2' = [frame2 EXCEPT !.pc = AfterFinally(frame2.pending),
                                !.exc = IF frame2.pending = "propagate"
                                          THEN "OtherError" ELSE frame2.exc,
                                !.pending = "none"]
    /\ UNCHANGED <<func, tries, logger, session, args, default_timeout, i,
                   pc, pending, result, exc, executes, connSession, calls,
                   warnings, timeout0, callBase>>
    /\ UNCHANGED <<enumVars, dropVars, facadeVars, syncVars, dbVars>>

\* raise self.error  (after the loop)
T2RaiseError ==
    /\ frame2.pc = "raise"
    /\ frame2' = [frame2 EXCEPT !.pc = "raised", !.exc = "OperationTimedOut"]
    /\ UNCHANGED <<execVars, enumVars, dropVars, facadeVars, syncVars,
                   dbVars>>

T2Step ==
    \/ T2Execute
    \/ T2ForLoop
    \/ T2TryCall
    \/ T2ExceptWarn
    \/ T2ExceptCapture
    \/ T2ExceptElevate
    \/ T2Finally
    \/ T2RaiseError

\* Both executors have no session of their own; the driver has one.
InitThreads ==
    /\ NewExecutor("op", DefaultTries, FALSE, "None")
    /\ connSession = "S"
    /\ sessTimeout \in Timeouts
    /\ timeout0 = sessTimeout
    /\ frame2 = IdleFrame(sessTimeout)
    /\ IdleEnum
    /\ IdleDrop
    /\ IdleFacade
    /\ IdleSync
    /\ IdleDb

NextThreads ==
    \/ Execute
    \/ ExecuteStep
    \/ T2Step

SpecThreads == InitThreads /\ [][NextThreads]_vars

(***************************************************************************)
(* Properties of execute (checked under Spec).                             *)
(***************************************************************************)
\* The invocations of the wrapped operation made by the current execute.
Cur == SubSeq(calls, callBase + 1, Len(calls))
Finished == pc \in {"returned", "raised"}
AllTimedOut == \A k \in 1..Len(Cur) : Cur[k].outcome = "timeout"

\* C1: with tries >= 1, with or without a session, an execute whose every
\* invocation timed out ends only after exactly `tries` invocations, and it
\* ends by raising the retryable error; it never invokes more than `tries`.
C1_AlwaysTimeoutRaises ==
    /\ (tries >= 1 => Len(Cur) <= tries)
    /\ (Finished /\ tries >= 1 /\ AllTimedOut)
          => /\ Len(Cur) = tries
             /\ pc = "raised"
             /\ exc = "OperationTimedOut"

C1_Witness ==
    /\ pc = "raised"
    /\ exc = "OperationTimedOut"
    /\ tries = 3
    /\ Len(Cur) = 3
    /\ AllTimedOut
    /\ HasSession(session)

\* C2: an invocation that succeeds is the last one: it is invocation
\* k <= tries, the k-1 before it timed out, nothing is invoked after it, and
\* execute returns the value of that invocation.
C2_SuccessStops ==
    \A k \in 1..Len(Cur) :
        Cur[k].outcome = "ok"
          => /\ k = Len(Cur)
             /\ k <= tries
             /\ \A j \in 1..(k - 1) : Cur[j].outcome = "timeout"
             /\ pc \in {"finally", "returned"}
             /\ result = Some(callBase + k)

C2_Witness ==
    /\ pc = "returned"
    /\ tries = 3
    /\ Len(Cur) = 3
    /\ Cur[3].outcome = "ok"
    /\ result = Some(callBase + 3)

\* C3: an invocation that raises a non-retryable error is the last one,
\* on whichever attempt it happens, and execute ends by raising that error.
C3_OtherErrorPropagates ==
    \A k \in 1..Len(Cur) :
        Cur[k].outcome = "other"
          => /\ k = Len(Cur)
             /\ \/ pc = "finally" /\ pending = "propagate"
                \/ pc = "raised" /\ exc = "OtherError"

C3_Witness ==
    /\ pc = "raised"
    /\ exc = "OtherError"
    /\ tries = 3
    /\ Len(Cur) = 2
    /\ Cur[1].outcome = "timeout"
    /\ Cur[2].outcome = "other"

\* C4: whenever execute has ended, the session's default timeout is the
\* value it had when execute started.
C4_TimeoutRestored ==
    Finished => sessTimeout = timeout0

\* C5: with a session available, an invocation that follows a timed-out
\* one runs while the session's default timeout is the elevated value.
C5_RetryElevated ==
    \A k \in 2..Len(Cur) :
        (Cur[k - 1].outcome = "timeout" /\ HasSession(session))
          => Cur[k].timeout = Some(ElevatedTimeout)

\* C14: the restore step writes a value other than the timeout the session
\* had before execute only in one case: the first two attempts timed out,
\* the session had no (or a zero) timeout before, and the value written is
\* the elevated one, captured by the second attempt.
C14_RestoreWritesElevated ==
    (pc = "finally" /\ Restores /\ default_timeout # timeout0)
      => /\ default_timeout = Some(ElevatedTimeout)
         /\ ~Truthy(timeout0)
         /\ Len(Cur) >= 2
         /\ Cur[1].outcome = "timeout"
         /\ Cur[2].outcome = "timeout"

\* Two attempts, both timed out with a session available; the last restore
\* wrote 100 although the session did not have 100 before execute.
C14_Witness ==
    /\ pc = "raised"
    /\ tries = 2
    /\ Len(Cur) = 2
    /\ AllTimedOut
    /\ HasSession(session)
    /\ Restores
    /\ default_timeout = Some(ElevatedTimeout)
    /\ sessTimeout = Some(ElevatedTimeout)
    /\ timeout0 # Some(ElevatedTimeout)

NoTimeoutYet == \A k \in 1..Len(Cur) : Cur[k].outcome # "timeout"

\* C16: the executor's session field changes only in the except clause of
\* an executor that has none, and then to the driver's session; as long as
\* no attempt of the execute timed out, a step changes neither the session
\* field nor the session's timeout and no timeout has been captured.
C16_SessionOnlyOnTimeout ==
    [][ /\ (session' # session)
           => (pc = "except" /\ session = "None" /\ session' = connSession)
        /\ NoTimeoutYet'
           => /\ session' = session
              /\ sessTimeout' = sessTimeout
              /\ default_timeout' = None
              /\ pc' \notin {"except", "capture", "elevate"} ]_vars

\* An execute of an executor without a session ended at its first attempt
\* (success or another error) while the driver had a session to offer.
C16_Witness ==
    /\ Finished
    /\ Len(Cur) = 1
    /\ Cur[1].outcome \in {"ok", "other"}
    /\ session = "None"
    /\ connSession = "S"
    /\ sessTimeout = timeout0

\* C18: an execute of an executor with tries <= 0 invokes nothing, goes
\* from the loop head straight to the raise after the loop, ends with the
\* retryable error and leaves the session's timeout as it was.
C18_NoTriesNoCall ==
    (tries <= 0 /\ pc # "idle")
      => /\ Len(Cur) = 0
         /\ pc \in {"for", "raise", "raised"}
         /\ sessTimeout = timeout0
         /\ Finished => exc = "OperationTimedOut"

\* An execute with tries <= 0 is over.
C18_Witness ==
    /\ tries <= 0
    /\ pc = "raised"
    /\ exc = "OperationTimedOut"
    /\ Len(Cur) = 0

(***************************************************************************)
(* Properties of the facade (checked under SpecFacade).                    *)
(***************************************************************************)
\* The step is a bind: init_app ran, called directly or by the constructor.
BindStep ==
    /\ lastCall'.op \in {"__init__", "init_app"}
    /\ lastCall'.input # None
BoundConfig == lastCall'.input[1]
HostsGiven(cfg) == cfg.hosts # None /\ cfg.hosts[1] # <<>>
KeyspaceGiven(cfg) == TruthyStr(cfg.keyspace)

\* C6: every bind whose hosts setting is absent or falsy, or whose keyspace
\* setting is absent or falsy, raises NoConfig and does not call
\* connection.setup.
C6_MissingConfigRaises ==
    [][(BindStep /\ ~ (HostsGiven(BoundConfig) /\ KeyspaceGiven(BoundConfig)))
         => /\ lastRaise' = "NoConfig"
            /\ setupCount' = setupCount]_vars

\* C7: every bind with non-empty hosts and keyspace returns, stores the
\* configured keyspace on the facade and adds exactly one connection.setup
\* call, made with the configured hosts and keyspace and with consistency,
\* lazy-connect, retry-connect and extra options as configured or defaulted
\* (1, false, false, none); a repeated bind calls setup again.
C7_BindCallsSetupOnce ==
    [][(BindStep /\ HostsGiven(BoundConfig) /\ KeyspaceGiven(BoundConfig))
         => /\ lastRaise' = ""
            /\ keyspace_'[lastCall'.f] = BoundConfig.keyspace
            /\ setupCount' = setupCount + 1
            /\ lastSetup' =
                 Some([hosts         |-> BoundConfig.hosts[1],
                       keyspace      |-> BoundConfig.keyspace[1],
                       consistency   |-> IF BoundConfig.consistency = None
                                           THEN 1
                                           ELSE BoundConfig.consistency[1],
                       lazy_connect  |-> BoundConfig.lazy_connect # None,
                       retry_connect |-> BoundConfig.retry_connect # None,
                       setup_kwargs  |-> IF BoundConfig.setup_kwargs = None
                                           THEN ""
                                           ELSE BoundConfig.setup_kwargs[1]])]_vars

\* A second bind of the same facade has called connection.setup a second
\* time, with all optional settings left to their defaults.
C7_Witness ==
    /\ setupCount = 2
    /\ lastCall.op = "init_app"
    /\ lastRaise = ""
    /\ keyspace_["A"] = Some("ks1")
    /\ lastSetup # None
    /\ lastSetup[1].hosts = <<"h1">>
    /\ lastSetup[1].consistency = 1
    /\ lastSetup[1].lazy_connect = FALSE

\* The step is a set_keyspace call on a bound facade: connection.setup has
\* run once, for this facade, with a non-empty keyspace.
SetKeyspaceStep ==
    /\ lastCall'.op = "set_keyspace"
    /\ setupCount = 1
    /\ TruthyStr(boundKeyspace[lastCall'.f])

\* C8: after a set_keyspace call on a bound facade, the process-wide
\* default keyspace and the facade's keyspace field both equal the argument
\* when one was given, and both equal the keyspace the facade was bound with
\* when none was given.
C8_SetKeyspaceSetsBoth ==
    [][SetKeyspaceStep
         => /\ TruthyStr(lastCall'.input)
                 => /\ DEFAULT_KEYSPACE' = lastCall'.input
                    /\ keyspace_'[lastCall'.f] = lastCall'.input
            /\ lastCall'.input = None
                 => /\ DEFAULT_KEYSPACE' = boundKeyspace[lastCall'.f]
                    /\ keyspace_'[lastCall'.f] = boundKeyspace[lastCall'.f]]_vars

(***************************************************************************)
(* Properties of get_subclasses (checked under SpecEnum).                  *)
(***************************************************************************)
\* The classes below cls in the tree, cls itself included.
RECURSIVE IsUnder(_, _)
IsUnder(c, cls) ==
    IF c = cls THEN TRUE
    ELSE IF c = 0 THEN FALSE
    ELSE IsUnder(parent[c], cls)

ConcreteUnder(cls) == {c \in Classes : IsUnder(c, cls) /\ ~ abstract[c]}
SeqRange(q) == {q[k] : k \in 1..Len(q)}
NoDuplicates(q) == \A a, b \in 1..Len(q) : q[a] = q[b] => a = b

\* C9: called on an abstract class, get_subclasses returns every concrete
\* class of the tree below it exactly once and no abstract class, concrete
\* subclasses of concrete classes included.
C9_AllConcreteOnce ==
    (enumResult # None /\ abstract[enumArg])
      => /\ SeqRange(enumResult[1]) = ConcreteUnder(enumArg)
         /\ NoDuplicates(enumResult[1])

(***************************************************************************)
(* Properties of drop_tables (checked under SpecDrop).                     *)
(***************************************************************************)
\* The place of model m in the enumeration.
Pos(m) == CHOOSE k \in 1..Len(dmodels) : dmodels[k] = m
CallsOf(m) == {k \in 1..Len(calls) : calls[k].arg = m}
AllOk == \A k \in 1..Len(calls) : calls[k].outcome = "ok"

\* C10: drop_tables invokes drop_table only for enumerated models, in
\* enumeration order and one model after another: it stays on a model only
\* after a timeout and moves to the next one only after a success; each
\* model is tried at most twice whatever the models before it used up; and
\* when drop_tables is over and no call failed, the invocations are exactly
\* the enumerated models, once each, in order.
C10_DropEachInOrder ==
    /\ \A k \in 1..Len(calls) :
         /\ calls[k].func = "drop_table"
         /\ calls[k].arg \in SeqRange(dmodels)
    /\ Len(calls) > 0 => calls[1].arg = dmodels[1]
    /\ \A k \in 1..(Len(calls) - 1) :
         \/ /\ calls[k].outcome = "timeout"
            /\ calls[k + 1].arg = calls[k].arg
         \/ /\ calls[k].outcome = "ok"
            /\ Pos(calls[k + 1].arg) = Pos(calls[k].arg) + 1
    /\ \A m \in SeqRange(dmodels) : Cardinality(CallsOf(m)) <= 2
    /\ (dpc = "done" /\ AllOk)
         => [k \in 1..Len(calls) |-> calls[k].arg] = dmodels

C10_Witness ==
    /\ dpc = "done"
    /\ AllOk
    /\ Len(dmodels) = 3
    /\ Len(calls) = 3

Dropped(m) == \E k \in CallsOf(m) : calls[k].outcome = "ok"

\* C17: an execute that ends in an error ends drop_tables with that error:
\* it is the retryable error after two timed-out attempts on the model, or
\* the other error of the last attempt; no model after that one is ever
\* passed to drop_table, every model before it has been dropped, and
\* drop_tables takes no further step.
C17_DropErrorStops ==
    /\ [](pc = "raised" => dpc \in {"execute", "raised"})
    /\ [](dpc = "raised"
            => /\ pc = "raised"
               /\ Len(calls) > 0
               /\ calls[Len(calls)].arg = dmodels[dindex]
               /\ exc = "OperationTimedOut"
                    => /\ Len(Cur) = DefaultTries
                       /\ AllTimedOut
                       /\ \A k \in 1..Len(Cur) : Cur[k].arg = dmodels[dindex]
               /\ exc = "OtherError"
                    => calls[Len(calls)].outcome = "other"
               /\ exc \in {"OperationTimedOut", "OtherError"}
               /\ \A k \in 1..Len(calls) : Pos(calls[k].arg) <= dindex
               /\ \A j \in 1..(dindex - 1) : Dropped(dmodels[j]))
    /\ [][ /\ dpc # "raised"
           /\ (dpc = "execute" /\ pc = "raised")
                => (dpc' = "raised" /\ exc' = exc /\ calls' = calls) ]_vars

\* The drop of the second of three models timed out twice: drop_tables
\* ended with the retryable error, the first model dropped, the third not
\* touched.
C17_Witness ==
    /\ dpc = "raised"
    /\ Len(dmodels) = 3
    /\ dindex = 2
    /\ exc = "OperationTimedOut"
    /\ Dropped(dmodels[1])
    /\ CallsOf(dmodels[3]) = {}

(***************************************************************************)
(* Properties of sync_db (checked under SpecSync).                         *)
(***************************************************************************)
\* C11: the k-th driver call of sync_db is sync_table on the k-th
\* enumerated model (once each, in order, nothing retried); a call that
\* raises, a timeout included, is the last one and its error leaves
\* sync_db, with every model before it synced once and none after it; and
\* sync_db returns only after syncing every enumerated model.
C11_SyncOnceNoRetry ==
    /\ Len(calls) <= Len(smodels)
    /\ \A k \in 1..Len(calls) :
         /\ calls[k].func = "sync_table"
         /\ calls[k].arg = smodels[k]
         /\ k < Len(calls) => calls[k].outcome = "ok"
    /\ spc = "raised"
         <=> (Len(calls) > 0 /\ calls[Len(calls)].outcome # "ok")
    /\ spc = "raised"
         => sexc = (IF calls[Len(calls)].outcome = "timeout"
                      THEN "OperationTimedOut" ELSE "OtherError")
    /\ spc = "done"
         => (Len(calls) = Len(smodels) /\ AllOk)

C11_Witness ==
    /\ spc = "raised"
    /\ sexc = "OperationTimedOut"
    /\ Len(smodels) = 3
    /\ Len(calls) = 2
    /\ calls[1].outcome = "ok"
    /\ calls[2].outcome = "timeout"

(***************************************************************************)
(* Properties of drop_db (checked under SpecDropDb and SpecTwo).           *)
(***************************************************************************)
\* C12: while drop_db(db) runs, every driver call it makes is drop_keyspace
\* with the facade's keyspace field, the value bind or set_keyspace wrote
\* last on that facade; it makes at most 2 calls and none after a success.
C12_DropDbTargetsField ==
    /\ kpc = "execute"
         => \A k \in 1..Len(Cur) :
              /\ Cur[k].func = "drop_keyspace"
              /\ Cur[k].arg = keyspace_[kdb]
    /\ kpc \in {"execute", "done", "raised"}
         => /\ Len(Cur) <= 2
            /\ \A k \in 1..Len(Cur) : Cur[k].outcome = "ok" => k = Len(Cur)

\* drop_db retried once and dropped "other", the keyspace set_keyspace
\* wrote, on a facade configured with "ks1".
C12_Witness ==
    /\ kpc = "execute"
    /\ pc = "returned"
    /\ Len(Cur) = 2
    /\ Cur[2].arg = Some("other")
    /\ keyspace_[kdb] = Some("other")
    /\ boundKeyspace[kdb] = Some("ks1")

\* A step of SpecTwo that is a facade method call: every step of drop_db
\* and of execute changes one of these.
FacadeCall == UNCHANGED <<pc, kpc, drops>>

\* C15: with two facades, a set_keyspace call that returns on one facade
\* sets the process-wide default keyspace and that facade's field to the
\* keyspace it switched to and leaves the other facade's field as it was;
\* and every drop_keyspace call of drop_db(db) is given db's own field,
\* whatever the process-wide default is.
C15_OtherFacadeUntouched ==
    /\ [][(FacadeCall /\ lastCall'.op = "set_keyspace" /\ lastRaise' = "")
            => /\ DEFAULT_KEYSPACE' =
                    (IF TruthyStr(lastCall'.input)
                       THEN lastCall'.input
                       ELSE app[lastCall'.f][1].keyspace)
               /\ keyspace_'[lastCall'.f] = DEFAULT_KEYSPACE'
               /\ \A g \in Facades \ {lastCall'.f} :
                    keyspace_'[g] = keyspace_[g]]_vars
    /\ [](kpc = "execute"
            => \A k \in 1..Len(Cur) : Cur[k].arg = keyspace_[kdb])

\* After set_keyspace("other") on A, B's field is still "ks1", differs from
\* the process-wide default, and drop_db(B) has dropped "ks1".
C15_Witness ==
    /\ lastCall = [op |-> "set_keyspace", f |-> "A", input |-> Some("other")]
    /\ lastRaise = ""
    /\ DEFAULT_KEYSPACE = Some("other")
    /\ keyspace_["A"] = Some("other")
    /\ keyspace_["B"] = Some("ks1")
    /\ kdb = "B"
    /\ kpc = "execute"
    /\ pc = "returned"
    /\ Cur[Len(Cur)].arg = Some("ks1")

(***************************************************************************)
(* Properties of two concurrent executes (checked under SpecThreads).      *)
(***************************************************************************)
BothFinished == Finished /\ frame2.pc \in {"returned", "raised"}
T1TimedOut == \E k \in 1..Len(calls) : calls[k].outcome = "timeout"
T2TimedOut ==
    \E k \in 1..Len(frame2.outcomes) : frame2.outcomes[k] = "timeout"

\* C13: two executes on the same session can both end with the session's
\* default timeout at 100 instead of its original (non-zero) value; when
\* they do, the value left is the elevated one and both of them had a
\* timeout: one thread retrying alone puts the original value back.
C13_HazardNeedsBoth ==
    (BothFinished /\ Truthy(frame2.orig) /\ sessTimeout # frame2.orig)
      => /\ sessTimeout = Some(ElevatedTimeout)
         /\ T1TimedOut
         /\ T2TimedOut

\* Both executes are over, each after a timeout, and the session that had
\* a default timeout of 10 is left with 100.
C13_Witness ==
    /\ BothFinished
    /\ T1TimedOut
    /\ T2TimedOut
    /\ frame2.orig = Some(10)
    /\ sessTimeout = Some(100)

====
